---- MODULE Spec2Model ----
(***************************************************************************)
(* Model of the support subsystem of genesis_ecommerce: the endpoints of    *)
(* api/v1/support.py (create_ticket, update_ticket_status, the ticket      *)
(* read endpoints, chat_with_bot, chat_about_order, chat_about_ticket)     *)
(* and CustomerSupportBot.chat of customer_support_bot/bot.py, over the    *)
(* Orders/Tickets tables of db/schema.py.                                  *)
(*                                                                         *)
(* A request occupies a slot r.  Its handler is cut at the calls that      *)
(* touch the database (session.get, session.commit, session.refresh,       *)
(* session.exec) and at the call to the completion service; the code       *)
(* between two such calls is local to the request and is part of the step  *)
(* that precedes it.  Every database call may raise.                       *)
(*                                                                         *)
(* Optional values (Optional[int], a row that may be None) are sequences   *)
(* of length 0 or 1.  Text built with f-strings is kept as a record of     *)
(* the literal it is built from and the values interpolated into it.       *)
(***************************************************************************)
EXTENDS Integers, Sequences, FiniteSets

\* ------------------------------------------------------------------ bounds
MaxTickets == 1    \* tickets the store may hold
MaxClock == 1      \* largest reading of the clock
NumOrders == 1     \* orders placed before the service starts
NumUsers == 1      \* users owning those orders
MaxHistory == 6    \* longest conversation history a chat request carries

\* two clients, whose requests may be in flight together
Reqs == {"a", "b"}

None == <<>>
Some(v) == <<v>>

\* ------------------------------------------------------------------ inputs
\* ids a request may carry: 0, the ids that resolve, and one that does not
OrderIdInputs == 0..(NumOrders + 1)
TicketIdInputs == 0..(MaxTickets + 1)
UserIdInputs == 0..(NumUsers + 1)
Descriptions == {"item broken"}
valid_statuses == <<"open", "in_progress", "resolved", "closed">>
StatusInputs == {"open", "in_progress", "resolved", "closed", "escalated"}
\* the status query parameter of the ticket listing: absent, empty, or a value
StatusFilters == {<<>>, <<"">>, <<"open">>, <<"closed">>}

Messages == {"What's the status?"}

SeqRange(s) == {s[i] : i \in 1..Len(s)}

\* Optional[int]: None, or one of the ids
Optional(ids) == {None} \cup {Some(i) : i \in ids}

\* the turns of a conversation of n messages, the customer speaking first
Conversation(n) ==
  [i \in 1..n |-> [role |-> IF i % 2 = 1 THEN "user" ELSE "assistant", content |-> i]]
\* the same turns from a client that writes the roles in capitals
Shouted(history) ==
  [i \in 1..Len(history) |->
     [history[i] EXCEPT !.role = IF @ = "user" THEN "USER" ELSE "ASSISTANT"]]
\* Optional[List[ChatMessage]]: None, the empty list, or a conversation
Histories ==
  {None} \cup {Some(Conversation(n)) : n \in 0..MaxHistory}
  \cup {Some(Shouted(Conversation(MaxHistory)))}

\* ------------------------------------------------------------------- state
VARIABLES
  orders,    \* Orders table: sequence of rows, the row of order i at index i
  tickets,   \* Tickets table: sequence of rows, the row of ticket i at index i
  clock,     \* last reading of datetime.now()
  pc,        \* pc[r]: where request r stands in its handler
  rq,        \* rq[r]: the request's inputs
  loc,       \* loc[r]: the handler's local variables
  resp,      \* resp[r]: what the caller receives
  sess,      \* sess[r]: the request's database session
  log,       \* log[r]: the handler's last logger.info line about a write
  docfiles,  \* the documents directory of the bot package
  bot        \* _bot_instance: None, or the CustomerSupportBot

vars == <<orders, tickets, clock, pc, rq, loc, resp, sess, log, docfiles, bot>>

\* Orders rows as seed_data.py inserts them; the service never writes Orders.
OrderStatusOf(i) == IF i % 2 = 1 THEN "shipped" ELSE "pending"
OrderItemsOf(i) == IF i % 2 = 1 THEN <<"Laptop", "Mouse", "Keyboard">> ELSE <<"Gaming Chair">>
OrderRow(i) ==
  [id |-> i, user_id |-> ((i - 1) % NumUsers) + 1, items |-> OrderItemsOf(i),
   status |-> OrderStatusOf(i), created_at |-> 0, updated_at |-> 0]

\* Tickets(order_id=..., issue_description=..., status=..., created_at=..., updated_at=...)
TicketRow(id, order_id, desc, status, created, updated) ==
  [id |-> id, order_id |-> order_id, issue_description |-> desc,
   status |-> status, created_at |-> created, updated_at |-> updated]

NoRq == [op |-> "none", order_id |-> None, ticket_id |-> None, user_id |-> None,
         status |-> "", issue_description |-> "", message |-> "", history |-> None,
         filter |-> None]
NoLoc == [found |-> FALSE, ticket |-> None, old_status |-> "",
          context |-> None, prompt |-> None, raised |-> {}, sent |-> <<>>,
          completion |-> "", before |-> None, call |-> None, order_ids |-> {}]
NoResp == [code |-> 0, detail |-> "", legal |-> <<>>, ticket |-> None,
           response |-> None, filter |-> None]

\* session.get(Model, id): the row with that primary key, or None
Get(table, id) == IF id \in 1..Len(table) THEN Some(table[id]) ELSE None

\* datetime.now(): the clock never runs backwards; it may or may not have
\* advanced since it was last read
NowReadings(c) == {t \in c..(c + 1) : t <= MaxClock}

\* raise HTTPException(status_code=..., detail=...)
HTTPException(code, detail) == [NoResp EXCEPT !.code = code, !.detail = detail]

\* the documents directory: both files readable, no file, or a file that
\* cannot be read
DocFileStates ==
  {[terms |-> TRUE, guide |-> TRUE, readable |-> TRUE],
   [terms |-> FALSE, guide |-> FALSE, readable |-> TRUE],
   [terms |-> TRUE, guide |-> TRUE, readable |-> FALSE]}

\* what every request starts from
InitRequests ==
  /\ orders = [i \in 1..NumOrders |-> OrderRow(i)]
  /\ clock = 0
  /\ bot = None
  /\ pc = [r \in Reqs |-> "idle"]
  /\ rq = [r \in Reqs |-> NoRq]
  /\ loc = [r \in Reqs |-> NoLoc]
  /\ resp = [r \in Reqs |-> NoResp]
  /\ sess = [r \in Reqs |-> "closed"]
  /\ log = [r \in Reqs |-> None]

Init ==
  /\ InitRequests
  /\ tickets = <<>>
  /\ docfiles = [terms |-> TRUE, guide |-> TRUE, readable |-> TRUE]

\* with Session(engine) as session: yield session  -- entering
Acquire(r, request) ==
  /\ pc[r] = "idle"
  /\ rq' = [rq EXCEPT ![r] = request]
  /\ sess' = [sess EXCEPT ![r] = "open"]

\* the locals of a write handler as it starts, with the tickets as they are
\* when its session begins
Begun(r) == [loc EXCEPT ![r].before = Some(tickets)]

\* the handler returned or raised: the response is fixed, its locals are gone
Respond(r, response) ==
  /\ resp' = [resp EXCEPT ![r] = response]
  /\ pc' = [pc EXCEPT ![r] = "responded"]

\* the session is closed only behind a handler that returned
ReleaseOnSuccess(r) ==
  /\ pc[r] = "responded"
  /\ resp[r].code = 200
  /\ sess' = [sess EXCEPT ![r] = "closed"]
  /\ pc' = [pc EXCEPT ![r] = "idle"]
  /\ rq' = [rq EXCEPT ![r] = NoRq]
  /\ loc' = [loc EXCEPT ![r] = NoLoc]
  /\ resp' = [resp EXCEPT ![r] = NoResp]
  /\ log' = [log EXCEPT ![r] = None]
  /\ UNCHANGED <<orders, tickets, clock, docfiles, bot>>

\* with Session(engine) as session: yield session  -- leaving
Release(r) ==
  /\ pc[r] = "responded"
  /\ sess' = [sess EXCEPT ![r] = "closed"]
  /\ pc' = [pc EXCEPT ![r] = "idle"]
  /\ rq' = [rq EXCEPT ![r] = NoRq]
  /\ loc' = [loc EXCEPT ![r] = NoLoc]
  /\ resp' = [resp EXCEPT ![r] = NoResp]
  /\ log' = [log EXCEPT ![r] = None]
  /\ UNCHANGED <<orders, tickets, clock, docfiles, bot>>

\* --------------------------------------------------------- create_ticket
\* creates in flight that have not yet inserted their row
PendingCreates == {q \in Reqs : pc[q] = "crt_commit"}

\* the lookup's result is not tested
OrderExistsUnchecked(order) == TRUE

\* support.py 48: `if not order` is false
OrderExists(order) == order # None

\* support.py 45-59 with request (order_id, issue_description): the order
\* lookup, then the new row with its two readings of the clock
CreateVerifyWith(r, order_id, issue_description) ==
  /\ Acquire(r, [NoRq EXCEPT !.op = "create_ticket", !.order_id = Some(order_id),
                             !.issue_description = issue_description])
  /\ \/ /\ Respond(r, HTTPException(500, "Failed to create ticket"))
        /\ loc' = [Begun(r) EXCEPT ![r].raised = {"get"}]
        /\ UNCHANGED clock
     \/ /\ ~OrderExists(Get(orders, order_id))
        /\ Respond(r, HTTPException(404, "Order not found"))
        /\ loc' = Begun(r)
        /\ UNCHANGED clock
     \/ /\ OrderExists(Get(orders, order_id))
        /\ Len(tickets) + Cardinality(PendingCreates) < MaxTickets
        /\ \E t1 \in NowReadings(clock) : \E t2 \in NowReadings(t1) :
             /\ loc' = [Begun(r) EXCEPT ![r].ticket =
                          Some(TicketRow(0, order_id, issue_description, "open", t1, t2))]
             /\ clock' = t2
        /\ pc' = [pc EXCEPT ![r] = "crt_commit"]
        /\ UNCHANGED resp
  /\ UNCHANGED <<orders, tickets, log, docfiles, bot>>

CreateVerify(r) ==
  \E o \in OrderIdInputs, d \in Descriptions : CreateVerifyWith(r, o, d)

\* support.py 61-62: session.add(new_ticket); session.commit()
CreateCommit(r) ==
  /\ pc[r] = "crt_commit"
  /\ \/ /\ Respond(r, HTTPException(500, "Failed to create ticket"))
        /\ loc' = [loc EXCEPT ![r].raised = {"commit"}, ![r].ticket = None]
        /\ UNCHANGED tickets
     \/ LET row == [loc[r].ticket[1] EXCEPT !.id = Len(tickets) + 1] IN
        /\ tickets' = Append(tickets, row)
        /\ loc' = [loc EXCEPT ![r].ticket = Some(row)]
        /\ pc' = [pc EXCEPT ![r] = "crt_refresh"]
        /\ UNCHANGED resp
  /\ UNCHANGED <<orders, clock, rq, sess, log, docfiles, bot>>

\* support.py 63-72: session.refresh(new_ticket), the log line, the result
CreateRefresh(r) ==
  /\ pc[r] = "crt_refresh"
  /\ \/ /\ Respond(r, HTTPException(500, "Failed to create ticket"))
        /\ loc' = [loc EXCEPT ![r].raised = {"refresh"}, ![r].ticket = None]
        /\ UNCHANGED log
     \/ LET row == tickets[loc[r].ticket[1].id] IN
        /\ loc' = [loc EXCEPT ![r].ticket = None]
        /\ log' = [log EXCEPT ![r] =
                     Some([event |-> "Created ticket", ticket_id |-> row.id,
                           order_id |-> rq[r].order_id[1], from |-> "", to |-> ""])]
        /\ Respond(r, [NoResp EXCEPT !.code = 200,
                                     !.detail = "Ticket created successfully",
                                     !.ticket = Some(row)])
  /\ UNCHANGED <<orders, tickets, clock, rq, sess, docfiles, bot>>

\* -------------------------------------------------- update_ticket_status
\* the status is not tested
StatusAcceptedAny(status) == TRUE

\* only the first three legal values are accepted
StatusAcceptedNoClosed(status) == status \in {"open", "in_progress", "resolved"}

\* support.py 218-219: `status_request.status not in valid_statuses` is false
StatusAccepted(status) == status \in SeqRange(valid_statuses)

\* old_status is read after the assignment
AssignStatusThenRead(ticket, status, now) ==
  [old_status |-> status,
   ticket |-> [ticket EXCEPT !.status = status, !.updated_at = now]]

\* support.py 226-228: old_status, then the two assignments to the loaded row
AssignStatus(ticket, status, now) ==
  [old_status |-> ticket.status,
   ticket |-> [ticket EXCEPT !.status = status, !.updated_at = now]]

\* support.py 211-228 with request (ticket_id, status): the ticket lookup, the
\* status check, then old_status and the two assignments to the loaded row
UpdateLoadWith(r, ticket_id, status) ==
  /\ Acquire(r, [NoRq EXCEPT !.op = "update_ticket_status",
                             !.ticket_id = Some(ticket_id), !.status = status])
  /\ \/ /\ Respond(r, HTTPException(500, "Failed to update ticket status"))
        /\ loc' = [Begun(r) EXCEPT ![r].raised = {"get"}]
        /\ UNCHANGED clock
     \/ /\ Get(tickets, ticket_id) = None
        /\ Respond(r, HTTPException(404, "Ticket not found"))
        /\ loc' = Begun(r)
        /\ UNCHANGED clock
     \/ /\ Get(tickets, ticket_id) # None
        /\ ~StatusAccepted(status)
        /\ Respond(r, [HTTPException(400, "Invalid status. Must be one of: ")
                         EXCEPT !.legal = valid_statuses])
        /\ loc' = [Begun(r) EXCEPT ![r].found = TRUE]
        /\ UNCHANGED clock
     \/ /\ Get(tickets, ticket_id) # None
        /\ StatusAccepted(status)
        /\ \E t \in NowReadings(clock) :
             /\ loc' = [Begun(r) EXCEPT
                          ![r].found = TRUE,
                          ![r].old_status =
                             AssignStatus(tickets[ticket_id], status, t).old_status,
                          ![r].ticket =
                             Some(AssignStatus(tickets[ticket_id], status, t).ticket)]
             /\ clock' = t
        /\ pc' = [pc EXCEPT ![r] = "upd_commit"]
        /\ UNCHANGED resp
  /\ UNCHANGED <<orders, tickets, log, docfiles, bot>>

UpdateLoad(r) ==
  \E t \in TicketIdInputs, s \in StatusInputs : UpdateLoadWith(r, t, s)

\* the commit writes the status and leaves updated_at as it was
UpdateCommitStatusOnly(r) ==
  /\ pc[r] = "upd_commit"
  /\ \/ /\ Respond(r, HTTPException(500, "Failed to update ticket status"))
        /\ loc' = [loc EXCEPT ![r].raised = {"commit"}, ![r].ticket = None]
        /\ UNCHANGED tickets
     \/ LET id == loc[r].ticket[1].id IN
        /\ tickets' = [tickets EXCEPT ![id].status = loc[r].ticket[1].status]
        /\ pc' = [pc EXCEPT ![r] = "upd_refresh"]
        /\ UNCHANGED <<resp, loc>>
  /\ UNCHANGED <<orders, clock, rq, sess, log, docfiles, bot>>

\* the commit writes only over the status the request had read
UpdateCommitIfUnchanged(r) ==
  /\ pc[r] = "upd_commit"
  /\ \/ /\ Respond(r, HTTPException(500, "Failed to update ticket status"))
        /\ loc' = [loc EXCEPT ![r].raised = {"commit"}, ![r].ticket = None]
        /\ UNCHANGED tickets
     \/ LET id == loc[r].ticket[1].id IN
        /\ tickets' = IF tickets[id].status = loc[r].old_status
                      THEN [tickets EXCEPT ![id].status = loc[r].ticket[1].status,
                                           ![id].updated_at = loc[r].ticket[1].updated_at]
                      ELSE tickets
        /\ pc' = [pc EXCEPT ![r] = "upd_refresh"]
        /\ UNCHANGED <<resp, loc>>
  /\ UNCHANGED <<orders, clock, rq, sess, log, docfiles, bot>>

\* support.py 230-231: session.add(ticket); session.commit()
UpdateCommit(r) ==
  /\ pc[r] = "upd_commit"
  /\ \/ /\ Respond(r, HTTPException(500, "Failed to update ticket status"))
        /\ loc' = [loc EXCEPT ![r].raised = {"commit"}, ![r].ticket = None]
        /\ UNCHANGED tickets
     \/ LET id == loc[r].ticket[1].id IN
        /\ tickets' = [tickets EXCEPT ![id].status = loc[r].ticket[1].status,
                                      ![id].updated_at = loc[r].ticket[1].updated_at]
        /\ pc' = [pc EXCEPT ![r] = "upd_refresh"]
        /\ UNCHANGED <<resp, loc>>
  /\ UNCHANGED <<orders, clock, rq, sess, log, docfiles, bot>>

\* support.py 232-241: session.refresh(ticket), the log line, the result
UpdateRefresh(r) ==
  /\ pc[r] = "upd_refresh"
  /\ \/ /\ Respond(r, HTTPException(500, "Failed to update ticket status"))
        /\ loc' = [loc EXCEPT ![r].raised = {"refresh"}, ![r].ticket = None]
        /\ UNCHANGED log
     \/ LET row == tickets[loc[r].ticket[1].id] IN
        /\ loc' = [loc EXCEPT ![r].ticket = None]
        /\ log' = [log EXCEPT ![r] =
                     Some([event |-> "Updated ticket", ticket_id |-> rq[r].ticket_id[1],
                           order_id |-> 0, from |-> loc[r].old_status,
                           to |-> row.status])]
        /\ Respond(r, [NoResp EXCEPT !.code = 200,
                                     !.detail = "Ticket status updated successfully",
                                     !.ticket = Some(row)])
  /\ UNCHANGED <<orders, tickets, clock, rq, sess, docfiles, bot>>

\* ----------------------------------------------------- ticket read endpoints
\* what a listing endpoint returns: the rows select(Tickets).where(...) gave,
\* in table order, and their number with them
Listing(rows, filter) ==
  [NoResp EXCEPT !.code = 200, !.ticket = rows, !.filter = filter]

\* support.py 95-107 with request (ticket_id)
GetTicketWith(r, ticket_id) ==
  /\ Acquire(r, [NoRq EXCEPT !.op = "get_ticket", !.ticket_id = Some(ticket_id)])
  /\ \/ /\ Respond(r, HTTPException(500, "Failed to fetch ticket"))
        /\ loc' = [loc EXCEPT ![r].raised = {"get"}]
     \/ /\ Get(tickets, ticket_id) = None
        /\ Respond(r, HTTPException(404, "Ticket not found"))
        /\ UNCHANGED loc
     \/ /\ Get(tickets, ticket_id) # None
        /\ Respond(r, [NoResp EXCEPT !.code = 200, !.ticket = Get(tickets, ticket_id)])
        /\ UNCHANGED loc
  /\ UNCHANGED <<orders, tickets, clock, log, docfiles, bot>>

get_ticket(r) == \E t \in TicketIdInputs : GetTicketWith(r, t)

\* support.py 124-129 with request (order_id): the order lookup
TicketsByOrderVerifyWith(r, order_id) ==
  /\ Acquire(r, [NoRq EXCEPT !.op = "get_tickets_by_order", !.order_id = Some(order_id)])
  /\ \/ /\ Respond(r, HTTPException(500, "Failed to fetch tickets"))
        /\ loc' = [loc EXCEPT ![r].raised = {"get"}]
     \/ /\ Get(orders, order_id) = None
        /\ Respond(r, HTTPException(404, "Order not found"))
        /\ UNCHANGED loc
     \/ /\ Get(orders, order_id) # None
        /\ pc' = [pc EXCEPT ![r] = "tbo_select"]
        /\ UNCHANGED <<loc, resp>>
  /\ UNCHANGED <<orders, tickets, clock, log, docfiles, bot>>

TicketsByOrderVerify(r) == \E o \in OrderIdInputs : TicketsByOrderVerifyWith(r, o)

\* support.py 131-145: the tickets of that order
TicketsByOrderSelect(r) ==
  /\ pc[r] = "tbo_select"
  /\ \/ /\ Respond(r, HTTPException(500, "Failed to fetch tickets"))
        /\ loc' = [loc EXCEPT ![r].raised = {"exec"}]
     \/ LET OfOrder(ticket) == ticket.order_id = rq[r].order_id[1] IN
        /\ Respond(r, Listing(SelectSeq(tickets, OfOrder), None))
        /\ UNCHANGED loc
  /\ UNCHANGED <<orders, tickets, clock, rq, sess, log, docfiles, bot>>

\* support.py 162-176 with request (user_id): the user's orders
TicketsByUserOrdersWith(r, user_id) ==
  /\ Acquire(r, [NoRq EXCEPT !.op = "get_tickets_by_user", !.user_id = Some(user_id)])
  /\ LET Owned(order) == order.user_id = user_id
         found == SelectSeq(orders, Owned)
     IN \/ /\ Respond(r, HTTPException(500, "Failed to fetch user tickets"))
           /\ loc' = [loc EXCEPT ![r].raised = {"exec"}]
        \/ /\ found = <<>>
           /\ Respond(r, Listing(<<>>, None))
           /\ UNCHANGED loc
        \/ /\ found # <<>>
           /\ loc' = [loc EXCEPT ![r].order_ids = {found[i].id : i \in 1..Len(found)}]
           /\ pc' = [pc EXCEPT ![r] = "tbu_select"]
           /\ UNCHANGED resp
  /\ UNCHANGED <<orders, tickets, clock, log, docfiles, bot>>

TicketsByUserOrders(r) == \E u \in UserIdInputs : TicketsByUserOrdersWith(r, u)

\* support.py 177-189: the tickets of those orders
TicketsByUserSelect(r) ==
  /\ pc[r] = "tbu_select"
  /\ \/ /\ Respond(r, HTTPException(500, "Failed to fetch user tickets"))
        /\ loc' = [loc EXCEPT ![r].raised = {"exec"}]
     \/ LET OfOrders(ticket) == ticket.order_id \in loc[r].order_ids IN
        /\ Respond(r, Listing(SelectSeq(tickets, OfOrders), None))
        /\ UNCHANGED loc
  /\ UNCHANGED <<orders, tickets, clock, rq, sess, log, docfiles, bot>>

\* support.py 266-282 with request (status): every ticket, or those with the
\* status given; `if status:` takes the empty string for no filter
GetAllTicketsWith(r, status) ==
  /\ Acquire(r, [NoRq EXCEPT !.op = "get_all_tickets", !.filter = status])
  /\ \/ /\ Respond(r, HTTPException(500, "Failed to fetch tickets"))
        /\ loc' = [loc EXCEPT ![r].raised = {"exec"}]
     \/ LET filtered == status # None /\ status[1] # ""
            Matches(ticket) == filtered => ticket.status = status[1]
        IN /\ Respond(r, Listing(SelectSeq(tickets, Matches),
                                 IF filtered THEN status ELSE None))
           /\ UNCHANGED loc
  /\ UNCHANGED <<orders, tickets, clock, log, docfiles, bot>>

get_all_tickets(r) == \E f \in StatusFilters : GetAllTicketsWith(r, f)

\* one step of a read endpoint for client r
Reads(r) ==
  \/ get_ticket(r)
  \/ TicketsByOrderVerify(r) \/ TicketsByOrderSelect(r)
  \/ TicketsByUserOrders(r) \/ TicketsByUserSelect(r)
  \/ get_all_tickets(r)

\* ------------------------------------------------- CustomerSupportBot
\* bot.py 60-93: the combined text of the documents that exist, a placeholder
\* when there is none, another when reading fails
LoadDocuments(files) ==
  IF (files.terms \/ files.guide) /\ ~files.readable
  THEN <<"Error loading support documents.">>
  ELSE LET combined_text ==
             (IF files.terms THEN <<"=== TERMS AND CONDITIONS ===">> ELSE <<>>)
             \o (IF files.guide THEN <<"=== SUPPORT GUIDE ===">> ELSE <<>>)
       IN IF combined_text = <<>>
          THEN <<"No additional documentation available.">>
          ELSE combined_text

\* bot.py 258-269: the bot is built on first use and kept
get_chatbot == IF bot = None THEN Some([documents |-> LoadDocuments(docfiles)]) ELSE bot

\* one section of the context: the literal it is built from (kind), the id
\* interpolated into it, the rows it reports, and the order status a ticket
\* section reports
Section(kind, id, rows, order_status) ==
  [kind |-> kind, id |-> id, rows |-> rows, order_status |-> order_status]

\* bot.py 95-123; raised: session.get or the formatting raised
OrderContext(order_id, raised) ==
  IF raised THEN Section("Error retrieving order #{} information.", order_id, <<>>, "")
  ELSE IF Get(orders, order_id) = None
  THEN Section("Order #{} not found in system.", order_id, <<>>, "")
  ELSE Section("Order Information:", order_id, Get(orders, order_id), "")

\* a ticket whose order is missing is reported as a failed lookup
TicketContextOrderRequired(ticket_id, raised) ==
  IF raised THEN Section("Error retrieving ticket #{} information.", ticket_id, <<>>, "")
  ELSE IF Get(tickets, ticket_id) = None
  THEN Section("Ticket #{} not found in system.", ticket_id, <<>>, "")
  ELSE IF Get(orders, tickets[ticket_id].order_id) = None
  THEN Section("Error retrieving ticket #{} information.", ticket_id, <<>>, "")
  ELSE Section("Support Ticket Information:", ticket_id, <<tickets[ticket_id]>>,
               Get(orders, tickets[ticket_id].order_id)[1].status)

\* bot.py 125-158; raised: one of the two session.get calls or the formatting raised
TicketContext(ticket_id, raised) ==
  IF raised THEN Section("Error retrieving ticket #{} information.", ticket_id, <<>>, "")
  ELSE IF Get(tickets, ticket_id) = None
  THEN Section("Ticket #{} not found in system.", ticket_id, <<>>, "")
  ELSE LET ticket == tickets[ticket_id]
           order == Get(orders, ticket.order_id)
           order_status == IF order # None THEN order[1].status ELSE "Unknown"
       IN Section("Support Ticket Information:", ticket_id, <<ticket>>, order_status)

\* bot.py 160-185; raised: session.exec or the formatting raised
UserOrdersContext(user_id, raised) ==
  LET Owned(order) == order.user_id = user_id
      found == SelectSeq(orders, Owned)
  IN IF raised THEN Section("Error retrieving orders for user #{}.", user_id, <<>>, "")
     ELSE IF found = <<>>
     THEN Section("No orders found for user #{}.", user_id, <<>>, "")
     ELSE Section("User #{} has {} order(s):", user_id, found, "")

\* `if order_id:` on an Optional[int]
Truthy(opt) == opt # None /\ opt[1] # 0

\* the lookups chat() makes for these ids
Performed(order_id, ticket_id, user_id) ==
  (IF Truthy(order_id) THEN {"order"} ELSE {})
  \cup (IF Truthy(ticket_id) THEN {"ticket"} ELSE {})
  \cup (IF Truthy(user_id) THEN {"user"} ELSE {})

\* the first lookup that raises ends the assembly
ContextPartsAborting(documents, order_id, ticket_id, user_id, raised) ==
  <<Section("documents", 0, documents, "")>>
  \o (IF Truthy(order_id)
      THEN <<OrderContext(order_id[1], "order" \in raised)>> ELSE <<>>)
  \o (IF Truthy(ticket_id) /\ "order" \notin raised
      THEN <<TicketContext(ticket_id[1], "ticket" \in raised)>> ELSE <<>>)
  \o (IF Truthy(user_id) /\ raised \cap {"order", "ticket"} = {}
      THEN <<UserOrdersContext(user_id[1], "user" \in raised)>> ELSE <<>>)

\* bot.py 212-222: context_parts; raised: the lookups that raise
ContextParts(documents, order_id, ticket_id, user_id, raised) ==
  <<Section("documents", 0, documents, "")>>
  \o (IF Truthy(order_id)
      THEN <<OrderContext(order_id[1], "order" \in raised)>> ELSE <<>>)
  \o (IF Truthy(ticket_id)
      THEN <<TicketContext(ticket_id[1], "ticket" \in raised)>> ELSE <<>>)
  \o (IF Truthy(user_id)
      THEN <<UserOrdersContext(user_id[1], "user" \in raised)>> ELSE <<>>)

\* one piece of the prompt: the literal (part) and what is interpolated (body)
Part(part, body) == [part |-> part, body |-> body]

\* str.capitalize() of the roles a conversation carries: the first letter in
\* upper case, the others in lower case
Capitalize(role) ==
  CASE role \in {"user", "USER", "User"} -> "User"
    [] role \in {"assistant", "ASSISTANT", "Assistant"} -> "Assistant"
    [] OTHER -> role

HistoryWindow == 5
\* conversation_history[:5]
FirstTurns(history) ==
  SubSeq(history, 1, IF Len(history) > HistoryWindow THEN HistoryWindow ELSE Len(history))

\* conversation_history[-5:]
LastTurns(history) ==
  SubSeq(history, IF Len(history) > HistoryWindow
                  THEN Len(history) - HistoryWindow + 1 ELSE 1, Len(history))

\* bot.py 224-238: system prompt with the context, history block, user
\* message, cue
BuildPrompt(context_parts, conversation_history, message) ==
  <<Part("You are a helpful customer support assistant", <<>>),
    Part("Context Information:", context_parts),
    Part("Important Guidelines:", <<>>)>>
  \o (IF conversation_history # None /\ conversation_history[1] # <<>>
      THEN <<Part("Conversation History:", <<>>)>>
           \o [i \in 1..Len(LastTurns(conversation_history[1])) |->
                 Part("{}: {}", <<Capitalize(LastTurns(conversation_history[1])[i].role),
                                  LastTurns(conversation_history[1])[i].content>>)]
      ELSE <<>>)
  \o <<Part("User: {}", <<message>>), Part("Assistant:", <<>>)>>

Apology ==
  "I apologize, but I'm experiencing technical difficulties. Please try again or contact our support team directly at support@genesis-ecommerce.com"

\* what the completion service answers when it answers
GeneratedText == "Your order has shipped."

\* ChatResponse(response=response)
ChatResponse(response) == [NoResp EXCEPT !.code = 200, !.response = Some(response)]

\* the arguments of one call of CustomerSupportBot.chat (bot.py 187-195)
ChatCall(message, order_id, ticket_id, user_id, conversation_history) ==
  [message |-> message, order_id |-> order_id, ticket_id |-> ticket_id,
   user_id |-> user_id, conversation_history |-> conversation_history]

\* ---------------------------------------------------------- chat_with_bot
\* support.py 341-361 and bot.py 210-238 with request (message, order_id,
\* ticket_id, user_id, conversation_history): the bot, the history as dicts,
\* the context with its lookups, the prompt
ChatAssembleWith(r, message, order_id, ticket_id, user_id, conversation_history) ==
  /\ Acquire(r, [NoRq EXCEPT !.op = "chat_with_bot", !.message = message,
                             !.order_id = order_id, !.ticket_id = ticket_id,
                             !.user_id = user_id, !.history = conversation_history])
  /\ bot' = get_chatbot
  /\ \E raised \in SUBSET Performed(order_id, ticket_id, user_id) :
       LET history == IF conversation_history # None /\ conversation_history[1] # <<>>
                      THEN conversation_history ELSE None
           context_parts == ContextParts(bot'[1].documents, order_id, ticket_id,
                                         user_id, raised)
       IN loc' = [loc EXCEPT ![r].context = Some(context_parts),
                             ![r].raised = raised,
                             ![r].call = Some(ChatCall(message, order_id, ticket_id,
                                                       user_id, history)),
                             ![r].prompt =
                                Some(BuildPrompt(context_parts, history, message))]
  /\ pc' = [pc EXCEPT ![r] = "chat_generate"]
  /\ UNCHANGED <<orders, tickets, clock, resp, log, docfiles>>

ChatAssemble(r) ==
  \E m \in Messages, o \in Optional(OrderIdInputs), t \in Optional(TicketIdInputs),
     u \in Optional(UserIdInputs), h \in Histories :
    ChatAssembleWith(r, m, o, t, u, h)

\* a failure of the completion call leaves chat() and reaches the endpoint's
\* handler (support.py 367-372)
ChatGenerateReraise(r) ==
  /\ pc[r] = "chat_generate"
  /\ \E outcome \in {"text", "raises", "no text"} :
       /\ loc' = [loc EXCEPT ![r].sent = Append(loc[r].sent, loc[r].prompt[1]),
                             ![r].completion = outcome]
       /\ Respond(r, IF outcome = "text" THEN ChatResponse(GeneratedText)
                     ELSE HTTPException(500, "Failed to process chat request. Please try again or contact support."))
  /\ UNCHANGED <<orders, tickets, clock, rq, sess, log, docfiles, bot>>

\* bot.py 240-251 and support.py 363-365: the completion call, its text or
\* the apology, the response
ChatGenerate(r) ==
  /\ pc[r] = "chat_generate"
  /\ \E outcome \in {"text", "raises", "no text"} :
       /\ loc' = [loc EXCEPT ![r].sent = Append(loc[r].sent, loc[r].prompt[1]),
                             ![r].completion = outcome]
       /\ Respond(r, ChatResponse(IF outcome = "text" THEN GeneratedText ELSE Apology))
  /\ UNCHANGED <<orders, tickets, clock, rq, sess, log, docfiles, bot>>

\* ------------------------------------- chat_about_order, chat_about_ticket
\* bot.py 210-238 for a call chat(message, session, order_id, ticket_id,
\* user_id) without history: the locals once the prompt is built
ChatLocals(r, documents, message, order_id, ticket_id, user_id, raised) ==
  LET context_parts == ContextParts(documents, order_id, ticket_id, user_id, raised)
  IN [loc EXCEPT ![r].context = Some(context_parts),
                 ![r].raised = raised,
                 ![r].call = Some(ChatCall(message, order_id, ticket_id, user_id, None)),
                 ![r].prompt = Some(BuildPrompt(context_parts, None, message))]

\* the order is not looked up before the bot is called
ChatAboutOrderUnverified(r, order_id, message) ==
  /\ Acquire(r, [NoRq EXCEPT !.op = "chat_about_order", !.order_id = Some(order_id),
                             !.message = message])
  /\ bot' = get_chatbot
  /\ \E raised \in SUBSET Performed(Some(order_id), None, None) :
       loc' = ChatLocals(r, bot'[1].documents, message, Some(order_id), None, None,
                         raised)
  /\ pc' = [pc EXCEPT ![r] = "chat_generate"]
  /\ UNCHANGED <<orders, tickets, clock, resp, log, docfiles>>

\* support.py 396-411 with request (order_id, message): the order lookup,
\* then the bot and its call with that order_id
ChatAboutOrderWith(r, order_id, message) ==
  /\ Acquire(r, [NoRq EXCEPT !.op = "chat_about_order", !.order_id = Some(order_id),
                             !.message = message])
  /\ \/ /\ Respond(r, HTTPException(500, "Failed to process chat request."))
        /\ loc' = [loc EXCEPT ![r].raised = {"get"}]
        /\ UNCHANGED bot
     \/ /\ Get(orders, order_id) = None
        /\ Respond(r, HTTPException(404, "Order not found"))
        /\ UNCHANGED <<loc, bot>>
     \/ /\ Get(orders, order_id) # None
        /\ bot' = get_chatbot
        /\ \E raised \in SUBSET Performed(Some(order_id), None, None) :
             loc' = ChatLocals(r, bot'[1].documents, message, Some(order_id), None,
                               None, raised)
        /\ pc' = [pc EXCEPT ![r] = "chat_generate"]
        /\ UNCHANGED resp
  /\ UNCHANGED <<orders, tickets, clock, log, docfiles>>

chat_about_order(r) ==
  \E o \in OrderIdInputs, m \in Messages : ChatAboutOrderWith(r, o, m)

\* support.py 447-462 with request (ticket_id, message): the ticket lookup,
\* then the bot and its call with that ticket_id
ChatAboutTicketWith(r, ticket_id, message) ==
  /\ Acquire(r, [NoRq EXCEPT !.op = "chat_about_ticket", !.ticket_id = Some(ticket_id),
                             !.message = message])
  /\ \/ /\ Respond(r, HTTPException(500, "Failed to process chat request."))
        /\ loc' = [loc EXCEPT ![r].raised = {"get"}]
        /\ UNCHANGED bot
     \/ /\ Get(tickets, ticket_id) = None
        /\ Respond(r, HTTPException(404, "Ticket not found"))
        /\ UNCHANGED <<loc, bot>>
     \/ /\ Get(tickets, ticket_id) # None
        /\ bot' = get_chatbot
        /\ \E raised \in SUBSET Performed(None, Some(ticket_id), None) :
             loc' = ChatLocals(r, bot'[1].documents, message, None, Some(ticket_id),
                               None, raised)
        /\ pc' = [pc EXCEPT ![r] = "chat_generate"]
        /\ UNCHANGED resp
  /\ UNCHANGED <<orders, tickets, clock, log, docfiles>>

chat_about_ticket(r) ==
  \E t \in TicketIdInputs, m \in Messages : ChatAboutTicketWith(r, t, m)

\* one step of a chat endpoint for client r
Chats(r) ==
  \/ ChatAssemble(r) \/ chat_about_order(r) \/ chat_about_ticket(r)
  \/ ChatGenerate(r)

\* ------------------------------------------------------------ specification
\* one step of client r
Step(r) ==
  \/ CreateVerify(r) \/ CreateCommit(r) \/ CreateRefresh(r)
  \/ UpdateLoad(r) \/ UpdateCommit(r) \/ UpdateRefresh(r)
  \/ Release(r)

\* One server process (run.py): the handlers are coroutines that never await
\* before they return, so the event loop runs each request to its end before
\* it starts the next.
Next == Step("a")

Spec == Init /\ [][Next]_vars

\* Several server processes over one database: the requests of different
\* processes interleave at their database calls.
NextWorkers == \E r \in Reqs : Step(r)

SpecWorkers == Init /\ [][NextWorkers]_vars

\* The chat path over a store as earlier requests left it: no ticket, a
\* ticket of an order, or a ticket whose order is no longer in the Orders
\* table (the service checks the order when it creates the ticket and never
\* again; Orders rows are written and removed outside it).
InitChat ==
  /\ InitRequests
  /\ tickets \in {<<>>, <<TicketRow(1, 1, "item broken", "open", 0, 0)>>,
                  <<TicketRow(1, NumOrders + 1, "item broken", "in_progress", 0, 0)>>}
  /\ docfiles \in DocFileStates

NextChat == Chats("a") \/ Release("a")

SpecChat == InitChat /\ [][NextChat]_vars

\* Every endpoint of the support router, one request after the other.
NextService == Step("a") \/ Reads("a") \/ Chats("a")

SpecService == Init /\ [][NextService]_vars

\* The chat endpoints as far as the session is concerned: chat_with_bot with
\* a message and at most an order_id, and the two convenience endpoints.
SessionChats(r) ==
  \/ \E m \in Messages, o \in Optional(OrderIdInputs) :
       ChatAssembleWith(r, m, o, None, None, None)
  \/ chat_about_order(r) \/ chat_about_ticket(r)
  \/ ChatGenerate(r)

NextSessions == Step("a") \/ Reads("a") \/ SessionChats("a")

\* A request that has started is carried to its end: the event loop runs the
\* handler, the database and the completion service answer or fail, and the
\* session dependency is closed once the handler has returned or raised.
FairService == Init /\ [][NextSessions]_vars /\ WF_vars(NextSessions)

\* ================================================================== claims
LegalStatuses == {"open", "in_progress", "resolved", "closed"}

IsUpdate(r) == rq[r].op = "update_ticket_status"
IsCreate(r) == rq[r].op = "create_ticket"
IsChat(r) == rq[r].op = "chat_with_bot"

\* C1: whatever create_ticket and update_ticket_status requests have run, in
\* whatever interleaving, every ticket in the store has one of the four legal
\* statuses.
C1_StatusAlwaysLegal ==
  \A i \in 1..Len(tickets) : tickets[i].status \in LegalStatuses

\* an update with an illegal status was turned down while another request's
\* update of the same ticket is between its read and its commit
C1_Witness ==
  \E r \in Reqs, q \in Reqs :
    /\ pc[r] = "responded" /\ IsUpdate(r) /\ resp[r].code = 400
    /\ pc[q] = "upd_commit"
    /\ Len(tickets) = 1 /\ tickets[1].status # "open"

\* C2: an update of an existing ticket with a status outside the legal four
\* is answered 400 with a message that lists the four legal values; the step
\* that answers it writes nothing to the tickets.
C2_Rejected ==
  \A r \in Reqs :
    (pc[r] = "responded" /\ IsUpdate(r) /\ loc[r].found
       /\ rq[r].status \notin LegalStatuses)
    => /\ resp[r].code = 400
       /\ resp[r].detail = "Invalid status. Must be one of: "
       /\ Len(resp[r].legal) = 4
       /\ SeqRange(resp[r].legal) = LegalStatuses

C2_NoWrite ==
  \A r \in Reqs :
    (pc[r] = "idle" /\ pc'[r] # "idle" /\ IsUpdate(r)'
       /\ rq'[r].status \notin LegalStatuses)
    => /\ tickets' = tickets
       /\ pc'[r] = "responded"

C2_InvalidStatusRejected == []C2_Rejected /\ [][C2_NoWrite]_vars

\* an illegal status was sent for a ticket that exists and is not open
C2_Witness ==
  \E r \in Reqs :
    /\ pc[r] = "responded" /\ IsUpdate(r) /\ loc[r].found
    /\ rq[r].status = "escalated"
    /\ tickets[rq[r].ticket_id[1]].status = "resolved"
    /\ tickets[rq[r].ticket_id[1]].updated_at > 0

\* C3: the ticket a successful create_ticket returns is open, belongs to the
\* requested order, and has created_at equal to updated_at.
C3_CreatedOpenAndStampedOnce ==
  \A r \in Reqs :
    (pc[r] = "responded" /\ IsCreate(r) /\ resp[r].code = 200)
    => /\ resp[r].ticket # None
       /\ resp[r].ticket[1].status = "open"
       /\ resp[r].ticket[1].order_id = rq[r].order_id[1]
       /\ resp[r].ticket[1].created_at = resp[r].ticket[1].updated_at

\* C4: create_ticket for an order id that session.get resolves to no order is
\* answered 404, and no step of that request writes to the tickets.
C4_NotFound ==
  \A r \in Reqs :
    (pc[r] = "responded" /\ IsCreate(r) /\ Get(orders, rq[r].order_id[1]) = None
       /\ loc[r].raised = {})
    => /\ resp[r].code = 404
       /\ resp[r].detail = "Order not found"

C4_NoWrite ==
  \A r \in Reqs :
    (pc'[r] # pc[r] /\ pc'[r] # "idle" /\ IsCreate(r)'
       /\ Get(orders, rq'[r].order_id[1]) = None)
    => tickets' = tickets

C4_MissingOrderNotFound == []C4_NotFound /\ [][C4_NoWrite]_vars

\* a create for an order id that does not resolve has been answered
C4_Witness ==
  \E r \in Reqs :
    /\ pc[r] = "responded" /\ IsCreate(r) /\ loc[r].raised = {}
    /\ rq[r].order_id[1] = NumOrders + 1

\* C5: an update of an existing ticket to any of the four legal statuses,
\* from whatever status the ticket has, is answered 200 unless a database
\* call raises; the ticket then has the requested status and the time read by
\* that request as updated_at, and it is the ticket returned.
C5_AnyTransitionAccepted ==
  \A r \in Reqs :
    (pc[r] = "responded" /\ IsUpdate(r) /\ loc[r].found
       /\ rq[r].status \in LegalStatuses /\ loc[r].raised = {})
    => /\ resp[r].code = 200
       /\ tickets[rq[r].ticket_id[1]].status = rq[r].status
       /\ tickets[rq[r].ticket_id[1]].updated_at = clock
       /\ resp[r].ticket = Some(tickets[rq[r].ticket_id[1]])

\* a closed ticket was reopened, at a later time than it was created
C5_Witness ==
  \E r \in Reqs :
    /\ pc[r] = "responded" /\ IsUpdate(r) /\ resp[r].code = 200
    /\ loc[r].old_status = "closed" /\ rq[r].status = "open"
    /\ tickets[rq[r].ticket_id[1]].updated_at > tickets[rq[r].ticket_id[1]].created_at

\* the statuses a caller can read in what a handler returned
StatusesIn(response) == {response.ticket[i].status : i \in 1..Len(response.ticket)}

\* C6 as stated: after a successful update the status the ticket had before
\* the transition can be read in what the operation returns.
C6_PriorStatusReturned ==
  \A r \in Reqs :
    (pc[r] = "responded" /\ IsUpdate(r) /\ resp[r].code = 200)
    => loc[r].old_status \in StatusesIn(resp[r])

\* C6 as amended: the handler keeps the status the ticket had when it read
\* it, and on success writes it to its log line ("Updated ticket <id> status
\* from <old> to <new>"); what it returns carries the refreshed ticket with
\* the new status only, and the ticket row has no column for the prior status.
C6_Read ==
  \A r \in Reqs :
    (pc[r] = "idle" /\ pc'[r] = "upd_commit")
    => loc'[r].old_status = tickets[rq'[r].ticket_id[1]].status

C6_Return ==
  \A r \in Reqs :
    (pc[r] = "upd_refresh" /\ pc'[r] = "responded" /\ resp'[r].code = 200)
    => /\ log'[r] # None
       /\ log'[r][1].event = "Updated ticket"
       /\ log'[r][1].from = loc[r].old_status
       /\ log'[r][1].to = rq[r].status
       /\ StatusesIn(resp'[r]) = {rq[r].status}
       /\ DOMAIN tickets'[rq[r].ticket_id[1]] =
            {"id", "order_id", "issue_description", "status", "created_at",
             "updated_at"}

C6_PriorStatusLoggedOnly == [][C6_Read]_vars /\ [][C6_Return]_vars

\* a successful update that changed the status: the log line has the prior
\* status, the returned ticket does not
C6_Witness ==
  \E r \in Reqs :
    /\ pc[r] = "responded" /\ IsUpdate(r) /\ resp[r].code = 200
    /\ log[r] # None /\ log[r][1].from = "in_progress"
    /\ resp[r].ticket[1].status = "resolved"

\* ------------------------------------------------------------ chat claims
Assembled(r) == IsChat(r) /\ pc[r] \in {"chat_generate", "responded"}

\* which part of the context a section belongs to
FamilyOf(section) ==
  CASE section.kind = "documents" -> "documents"
    [] section.kind \in {"Order Information:", "Order #{} not found in system.",
                         "Error retrieving order #{} information."} -> "order"
    [] section.kind \in {"Support Ticket Information:",
                         "Ticket #{} not found in system.",
                         "Error retrieving ticket #{} information."} -> "ticket"
    [] section.kind \in {"User #{} has {} order(s):", "No orders found for user #{}.",
                         "Error retrieving orders for user #{}."} -> "user"
    [] OTHER -> "other"

Families(context) == [i \in 1..Len(context) |-> FamilyOf(context[i])]

\* the context interpolated into a prompt
ContextOf(prompt) ==
  LET at == {i \in 1..Len(prompt) : prompt[i].part = "Context Information:"}
  IN IF at = {} THEN <<>> ELSE prompt[CHOOSE i \in at : TRUE].body

\* C7: when the completion call raises or its response has no text, the
\* caller of /support/chat gets a normal response (200) whose text is the
\* fixed apology, whatever ids and history the request carried.
C7_CompletionFailureGivesApology ==
  \A r \in Reqs :
    (pc[r] = "responded" /\ IsChat(r) /\ loc[r].completion \in {"raises", "no text"})
    => /\ resp[r].code = 200
       /\ resp[r].response =
            Some("I apologize, but I'm experiencing technical difficulties. Please try again or contact our support team directly at support@genesis-ecommerce.com")

\* the completion call raised in a chat that carried all three ids and a
\* history, and whose ticket lookup had raised as well
C7_Witness ==
  \E r \in Reqs :
    /\ pc[r] = "responded" /\ IsChat(r) /\ loc[r].completion = "raises"
    /\ rq[r].order_id = Some(1) /\ rq[r].ticket_id = Some(1)
    /\ rq[r].user_id = Some(1)
    /\ rq[r].history # None /\ Len(rq[r].history[1]) = MaxHistory
    /\ loc[r].raised = {"ticket"}

\* C8: a chat with an order_id that resolves to no order (the lookup itself
\* not raising) has the section "Order #<id> not found in system." in its
\* context, and the completion service is called exactly once, with a prompt
\* that contains that section.
C8_MissingOrderSentinel ==
  \A r \in Reqs :
    (pc[r] = "responded" /\ IsChat(r) /\ rq[r].order_id # None
       /\ Get(orders, rq[r].order_id[1]) = None /\ "order" \notin loc[r].raised)
    => LET sentinel == [kind |-> "Order #{} not found in system.",
                        id |-> rq[r].order_id[1], rows |-> <<>>, order_status |-> ""]
       IN /\ sentinel \in SeqRange(loc[r].context[1])
          /\ Len(loc[r].sent) = 1
          /\ sentinel \in SeqRange(ContextOf(loc[r].sent[1]))

\* C9: the context is the static section, then an order section exactly when
\* order_id was supplied, then a ticket section exactly when ticket_id was
\* supplied, then a user-orders section exactly when user_id was supplied.
C9_SectionsFollowSuppliedIds ==
  \A r \in Reqs :
    Assembled(r)
    => Families(loc[r].context[1]) =
         <<"documents">>
         \o (IF rq[r].order_id # None THEN <<"order">> ELSE <<>>)
         \o (IF rq[r].ticket_id # None THEN <<"ticket">> ELSE <<>>)
         \o (IF rq[r].user_id # None THEN <<"user">> ELSE <<>>)

\* the sentinel of a lookup that raised
ErrorSentinel(family, id) ==
  [kind |-> CASE family = "order" -> "Error retrieving order #{} information."
              [] family = "ticket" -> "Error retrieving ticket #{} information."
              [] family = "user" -> "Error retrieving orders for user #{}.",
   id |-> id, rows |-> <<>>, order_status |-> ""]

IdOf(r, family) ==
  CASE family = "order" -> rq[r].order_id[1]
    [] family = "ticket" -> rq[r].ticket_id[1]
    [] family = "user" -> rq[r].user_id[1]

\* C10: a lookup that raises puts its own error sentinel in the place of its
\* section and changes nothing else: the context has the sections, in the
\* positions, that it has when no lookup raises, and the sections of the
\* lookups that did not raise are the same; the prompt is built on that
\* context and the completion service is called with it.
C10_FailingLookupIsolated ==
  \A r \in Reqs :
    Assembled(r)
    => LET context == loc[r].context[1]
           clean == ContextParts(bot[1].documents, rq[r].order_id, rq[r].ticket_id,
                                 rq[r].user_id, {})
       IN /\ Len(context) = Len(clean)
          /\ \A i \in 1..Len(context) :
               /\ FamilyOf(context[i]) = FamilyOf(clean[i])
               /\ IF FamilyOf(context[i]) \in loc[r].raised
                  THEN context[i] =
                         ErrorSentinel(FamilyOf(context[i]), IdOf(r, FamilyOf(context[i])))
                  ELSE context[i] = clean[i]
          /\ \A family \in loc[r].raised : family \in SeqRange(Families(context))
          /\ loc[r].prompt # None /\ ContextOf(loc[r].prompt[1]) = context
          /\ pc[r] = "responded" => loc[r].sent = <<loc[r].prompt[1]>>

\* the order lookup raised; the ticket and the user's orders are reported
\* after its sentinel
C10_Witness ==
  \E r \in Reqs :
    /\ pc[r] = "responded" /\ IsChat(r) /\ loc[r].raised = {"order"}
    /\ Families(loc[r].context[1]) = <<"documents", "order", "ticket", "user">>
    /\ loc[r].context[1][3].kind = "Support Ticket Information:"
    /\ loc[r].context[1][4].kind = "User #{} has {} order(s):"
\* ------------------------------------------------------- session claims
\* C11: a request holds a session of its own from its first step to its
\* response, and every request that has started, however it ends (a result,
\* 404, 400, a database failure answered 500, a failed completion answered
\* with the apology), has its session closed afterwards; a client with no
\* request in progress holds no session.
C11_SessionReleased ==
  /\ [](\A r \in Reqs : (pc[r] = "idle") <=> (sess[r] = "closed"))
  /\ \A r \in Reqs : (sess[r] = "open") ~> (sess[r] = "closed")

\* the completion call of a chat has raised and the request, answered with
\* the apology, still holds its session
C11_Witness ==
  \E r \in Reqs :
    /\ pc[r] = "responded" /\ IsChat(r) /\ loc[r].completion = "raises"
    /\ sess[r] = "open"

\* ------------------------------------------------------- failure claims
IsWrite(r) == IsCreate(r) \/ IsUpdate(r)

\* C12: when a database call of create_ticket or update_ticket_status raises
\* (the lookup, the commit, or the refresh after the commit), the caller is
\* answered 500, and whenever a write request is answered 500 the tickets
\* are exactly what they were when the request began.
C12_FailureLeavesStoreAsBefore ==
  \A r \in Reqs :
    (pc[r] = "responded" /\ IsWrite(r))
    => /\ loc[r].raised # {} => resp[r].code = 500
       /\ resp[r].code = 500 => tickets = loc[r].before[1]

\* --------------------------------------------------- concurrency claims
\* the update of request r has been committed
Committed(r) ==
  /\ IsUpdate(r)
  /\ \/ pc[r] = "upd_refresh"
     \/ pc[r] = "responded" /\ (resp[r].code = 200 \/ loc[r].raised = {"refresh"})

\* C13: updates of one ticket by two requests in flight together are not
\* coordinated.  Each request with a legal status whose database calls do not
\* raise is answered 200, whatever the other does; each commit leaves the
\* ticket with the status its own request asked for, and nothing but a commit
\* changes a ticket's status, so the persisted status is that of the request
\* that committed last; once both have committed it is one of the two
\* statuses asked for.
C13_BothSucceed ==
  \A r \in Reqs :
    (pc[r] = "responded" /\ IsUpdate(r) /\ loc[r].found
       /\ rq[r].status \in LegalStatuses /\ loc[r].raised = {})
    => resp[r].code = 200

C13_OneOfTheTwo ==
  \A r \in Reqs, q \in Reqs :
    (r # q /\ Committed(r) /\ Committed(q) /\ rq[r].ticket_id = rq[q].ticket_id)
    => tickets[rq[r].ticket_id[1]].status \in {rq[r].status, rq[q].status}

C13_CommitWrites ==
  \A r \in Reqs :
    (pc[r] = "upd_commit" /\ pc'[r] = "upd_refresh")
    => tickets'[rq[r].ticket_id[1]].status = rq[r].status

C13_OnlyCommitWrites ==
  \A i \in 1..Len(tickets) :
    tickets'[i].status # tickets[i].status
    => \E r \in Reqs : /\ pc[r] = "upd_commit" /\ pc'[r] = "upd_refresh"
                       /\ rq[r].ticket_id = Some(i)

IsChatAbout(r) == rq[r].op \in {"chat_about_order", "chat_about_ticket"}
Resolved(r) ==
  IF rq[r].op = "chat_about_order" THEN Get(orders, rq[r].order_id[1])
  ELSE Get(tickets, rq[r].ticket_id[1])

\* C14: chat_about_order (chat_about_ticket) whose id resolves to no row is
\* answered 404 "Order not found" ("Ticket not found"), with no response
\* text, and neither the bot nor the completion service is called; when the
\* id resolves the bot is called once with the message and that id alone
\* (no other id, no history) and the completion service once with its prompt.
C14_ConvenienceChatFailsFast ==
  \A r \in Reqs :
    (IsChatAbout(r) /\ loc[r].raised # {"get"})
    => IF Resolved(r) = None
       THEN /\ pc[r] = "responded"
            /\ resp[r].code = 404
            /\ resp[r].detail = (IF rq[r].op = "chat_about_order"
                                 THEN "Order not found" ELSE "Ticket not found")
            /\ resp[r].response = None
            /\ loc[r].call = None
            /\ loc[r].sent = <<>>
       ELSE /\ loc[r].call =
                 Some([message |-> rq[r].message, order_id |-> rq[r].order_id,
                       ticket_id |-> rq[r].ticket_id, user_id |-> None,
                       conversation_history |-> None])
            /\ {rq[r].order_id, rq[r].ticket_id} =
                 {None, Some(Resolved(r)[1].id)}
            /\ pc[r] = "responded"
                 => (resp[r].code = 200 /\ Len(loc[r].sent) = 1)

\* a chat about a ticket id that does not resolve, in a store that holds a
\* ticket and after the bot has been built, was answered 404
C14_Witness ==
  \E r \in Reqs :
    /\ pc[r] = "responded" /\ rq[r].op = "chat_about_ticket"
    /\ rq[r].ticket_id = Some(MaxTickets + 1) /\ Len(tickets) = 1
    /\ resp[r].code = 404 /\ bot # None

\* ------------------------------------------------------- prompt claims
\* the lines of a prompt that render conversation turns
TurnsOf(prompt) ==
  LET IsTurn(p) == p.part = "{}: {}" IN SelectSeq(prompt, IsTurn)

HeadersOf(prompt) ==
  LET IsHeader(p) == p.part = "Conversation History:" IN SelectSeq(prompt, IsHeader)

\* the turns a chat_with_bot request carries
TurnsSent(r) == IF rq[r].history = None THEN <<>> ELSE rq[r].history[1]

Min(a, b) == IF a < b THEN a ELSE b

\* a role as the rendering shows it
Rendered(role) == IF role \in {"user", "USER"} THEN "User" ELSE "Assistant"

\* C15: of a history of n turns the prompt renders the last min(5, n), in
\* their order, each on a line "<Role capitalized>: <content>", under one
\* "Conversation History:" header; with no history, or an empty one, the
\* prompt has neither header nor turn lines.
C15_LastFiveTurnsRendered ==
  \A r \in Reqs :
    (Assembled(r) /\ loc[r].prompt # None)
    => LET prompt == loc[r].prompt[1]
           turns == TurnsSent(r)
           n == Len(turns)
           k == Min(5, n)
       IN /\ Len(TurnsOf(prompt)) = k
          /\ \A i \in 1..k :
               TurnsOf(prompt)[i] =
                 [part |-> "{}: {}",
                  body |-> <<Rendered(turns[n - k + i].role), turns[n - k + i].content>>]
          /\ Len(HeadersOf(prompt)) = (IF n = 0 THEN 0 ELSE 1)

\* a history longer than the window was sent: the prompt starts its turns
\* at the second of them
C15_Witness ==
  \E r \in Reqs :
    /\ Assembled(r) /\ Len(TurnsSent(r)) = MaxHistory /\ MaxHistory > 5
    /\ TurnsSent(r)[1].role = "USER"
    /\ Len(TurnsOf(loc[r].prompt[1])) = 5
    /\ TurnsOf(loc[r].prompt[1])[1].body[2] = MaxHistory - 4
    /\ TurnsOf(loc[r].prompt[1])[1].body[1] \in {"User", "Assistant"}

\* where the parts of a prompt stand
At(prompt, parts) == {i \in 1..Len(prompt) : prompt[i].part \in parts}
SystemInstructions == {"You are a helpful customer support assistant",
                       "Important Guidelines:"}

\* the order of everything but the system instructions: the context, then
\* the history block under its header when there is one, then the user
\* message, then the cue, which ends the prompt
DynamicOrder(r, prompt) ==
  /\ At(prompt, {"Context Information:"}) = {2}
  /\ prompt[2].body = loc[r].context[1]
  /\ \A h \in At(prompt, {"Conversation History:"}) :
       /\ h > 2
       /\ \A t \in At(prompt, {"{}: {}"}) : h < t
  /\ At(prompt, {"{}: {}"}) # {} => At(prompt, {"Conversation History:"}) # {}
  /\ At(prompt, {"User: {}"}) = {Len(prompt) - 1}
  /\ prompt[Len(prompt) - 1].body = <<rq[r].message>>
  /\ \A t \in At(prompt, {"Conversation History:", "{}: {}"}) : t < Len(prompt) - 1
  /\ At(prompt, {"Assistant:"}) = {Len(prompt)}

\* C16: in the prompt sent to the completion service every system
\* instruction stands before all dynamic content (the context, the history
\* block, the user message); the history block, when present, follows under
\* "Conversation History:"; "User: <message>" is the last element before
\* the cue "Assistant:", which ends the prompt.
C16_SystemInstructionsFirst ==
  \A r \in Reqs :
    (pc[r] = "responded" /\ loc[r].sent # <<>>)
    => LET prompt == loc[r].sent[1] IN
       /\ DynamicOrder(r, prompt)
       /\ \A i \in At(prompt, SystemInstructions) :
            \A j \in At(prompt, {"Context Information:", "Conversation History:",
                                  "{}: {}", "User: {}"}) : i < j

\* C17: when the ticket_id of a chat resolves to a ticket whose order_id
\* resolves to no order (no lookup raising), the context has an ordinary
\* ticket section, with the ticket's own fields and "Unknown" as the order
\* status, and no not-found or error sentinel stands in its place.
C17_MissingOrderShownUnknown ==
  \A r \in Reqs :
    (loc[r].context # None /\ Truthy(rq[r].ticket_id) /\ "ticket" \notin loc[r].raised
       /\ Get(tickets, rq[r].ticket_id[1]) # None
       /\ Get(orders, Get(tickets, rq[r].ticket_id[1])[1].order_id) = None)
    => LET sections == {i \in 1..Len(loc[r].context[1]) :
                          FamilyOf(loc[r].context[1][i]) = "ticket"}
       IN /\ Cardinality(sections) = 1
          /\ \A i \in sections :
               loc[r].context[1][i] =
                 [kind |-> "Support Ticket Information:", id |-> rq[r].ticket_id[1],
                  rows |-> <<tickets[rq[r].ticket_id[1]]>>, order_status |-> "Unknown"]

\* a chat that named such a ticket, and its order as well, has been answered:
\* the order section is the not-found sentinel, the ticket section is ordinary
C17_Witness ==
  \E r \in Reqs :
    /\ pc[r] = "responded" /\ IsChat(r) /\ loc[r].raised = {}
    /\ rq[r].ticket_id = Some(1) /\ rq[r].order_id = Some(NumOrders + 1)
    /\ Len(tickets) = 1 /\ tickets[1].order_id = NumOrders + 1
    /\ loc[r].context[1][2].kind = "Order #{} not found in system."
    /\ loc[r].context[1][3].order_status = "Unknown"

\* ---------------------------------------------------------- frame claims
\* the step is the commit of an update_ticket_status of ticket i
CommitsUpdateOf(i) ==
  \E r \in Reqs : /\ IsUpdate(r) /\ pc[r] = "upd_commit" /\ pc'[r] = "upd_refresh"
                  /\ rq[r].ticket_id = Some(i)

\* what no step of any endpoint does: remove a ticket, change a ticket's id,
\* order_id, issue_description or created_at, touch an order, or change a
\* ticket otherwise than by the commit of an update of that very ticket,
\* which leaves the other tickets alone
Frame ==
  /\ orders' = orders
  /\ Len(tickets') >= Len(tickets)
  /\ \A i \in 1..Len(tickets) :
       /\ tickets'[i].id = tickets[i].id
       /\ tickets'[i].order_id = tickets[i].order_id
       /\ tickets'[i].issue_description = tickets[i].issue_description
       /\ tickets'[i].created_at = tickets[i].created_at
       /\ tickets'[i] # tickets[i]
            => /\ CommitsUpdateOf(i)
               /\ \A j \in 1..Len(tickets') : j # i => Get(tickets, j) = Some(tickets'[j])
  /\ (\E r \in Reqs : pc'[r] # pc[r] /\ ~IsWrite(r) /\ ~IsWrite(r)')
       => tickets' = tickets

\* an update_ticket_status that was not successful has changed no ticket
UnsuccessfulUpdateChangesNothing ==
  \A r \in Reqs :
    (pc[r] = "responded" /\ IsUpdate(r) /\ resp[r].code # 200)
    => tickets = loc[r].before[1]

\* C18: over every sequence of requests to the endpoints, no ticket is ever
\* removed and no ticket's id, order_id, issue_description or created_at
\* changes; an existing ticket is changed only by a successful
\* update_ticket_status of that ticket, in its status and updated_at, with
\* every other ticket and every order unchanged; the read and the chat
\* endpoints change nothing in the store.
C18_OnlySuccessfulUpdatesChangeTickets ==
  /\ []UnsuccessfulUpdateChangesNothing
  /\ [][Frame]_vars
====
